---- MODULE Spec2Model ----
(***************************************************************************)
(* Model of src/project.py: the FastAPI handler handle_request, which      *)
(* validates a deployment request, asks the LLM for an app, writes three   *)
(* files, publishes them with git and gh, and notifies a callback URL with *)
(* retries.  The handler is an `async def` whose only await is the body    *)
(* read, and every later call is blocking, so one handler at a time holds  *)
(* the event loop from the secret check to its return; requests are served *)
(* one after another against a working directory root and a GitHub account *)
(* that persist between them.                                              *)
(***************************************************************************)
EXTENDS Integers, Sequences, FiniteSets, TLC

(* ---------------- bounds of the model ---------------- *)

\* number of requests the process serves in one behaviour
MaxRequests == 2

(* ---------------- strings ---------------- *)
\* A string is a sequence of one-character strings; a fixed literal of the
\* code that is never inspected is a single element.

\* html.escape(s): & < > " ' are replaced by their entities (quote=True)
EscapeChar(c) ==
    CASE c = "&" -> <<"&", "a", "m", "p", ";">>
      [] c = "<" -> <<"&", "l", "t", ";">>
      [] c = ">" -> <<"&", "g", "t", ";">>
      [] c = "\"" -> <<"&", "q", "u", "o", "t", ";">>
      [] c = "'" -> <<"&", "#", "x", "2", "7", ";">>
      [] OTHER -> <<c>>

RECURSIVE html_escape(_)
html_escape(s) ==
    IF s = <<>> THEN <<>> ELSE EscapeChar(Head(s)) \o html_escape(Tail(s))

\* str.lower() on the letters the model's requests use
LowerChar(c) ==
    CASE c = "Q" -> "q"
      [] c = "A" -> "a"
      [] OTHER -> c

\* str.replace(" ", "-") on one character
HyphenChar(c) == IF c = " " THEN "-" ELSE c

\* str(round_) of a small non-negative integer
IntToStr(n) ==
    CASE n = 0 -> <<"0">>
      [] n = 1 -> <<"1">>
      [] n = 2 -> <<"2">>
      [] n = 3 -> <<"3">>
      [] OTHER -> <<"9">>

\* line 87: f"{task}-{round_}".replace(" ", "-").lower()
RepoName(t, r) ==
    LET s == t \o <<"-">> \o IntToStr(r)
    IN  [k \in 1..Len(s) |-> LowerChar(HyphenChar(s[k]))]

\* line 117 and line 134
RepoUrl(name) == <<"https://github.com/u/">> \o name
PagesUrl(name) == <<"https://u.github.io/">> \o name \o <<"/">>

(* ---------------- requests ---------------- *)

\* a JSON field: absent, or a value of some kind
Absent == [k |-> "absent", v |-> <<>>]
Str(s) == [k |-> "str", v |-> s]
NonStr == [k |-> "nonstr", v |-> <<>>]
IntVal(n) == [k |-> "int", v |-> <<n>>]
BadInt == [k |-> "badint", v |-> <<>>]
\* JSON null
Null == [k |-> "null", v |-> <<>>]

DefaultEmail == <<"student@example.com">>
GivenEmail == <<"e", "@", "x">>

\* task strings of requests: blanks, upper case and characters html.escape rewrites
Tasks == { <<"Q", " ", "a">>, <<"a", "&">> }
\* uuid.uuid4().hex[:6] of line 79
UuidHex == { <<"0f3a9c">> }

RoundFields == {Absent, IntVal(2)}

NoFields(b) ==
    [body |-> b, secret |-> "absent", email |-> Absent, task |-> Absent,
     round |-> Absent, nonce |-> Absent, evaluation_url |-> Absent]

\* well-formed bodies that rely on the defaults of email and nonce
Plain ==
    [body : {"object"}, secret : {"ok", "wrong", "absent"},
     email : {Absent}, task : {Str(<<"Q", " ", "a">>)}, round : RoundFields,
     nonce : {Absent}, evaluation_url : {Str(<<"http://cb">>)}]

\* a task with a character html.escape rewrites, and a body without task
Escaped ==
    [body : {"object"}, secret : {"ok"},
     email : {Absent}, task : {Absent, Str(<<"a", "&">>)}, round : {Absent},
     nonce : {Absent}, evaluation_url : {Absent}]

\* a well-formed body that gives every field
Full ==
    [body : {"object"}, secret : {"ok"},
     email : {Str(GivenEmail)}, task : {Str(<<"Q", " ", "a">>)},
     round : {Absent}, nonce : {Str(<<"n">>)},
     evaluation_url : {Str(<<"http://cb">>)}]

\* bodies with the right secret and one field of the wrong type
Malformed ==
    { [NoFields("object") EXCEPT !.secret = "ok", !.email = NonStr],
      [NoFields("object") EXCEPT !.secret = "ok", !.task = NonStr],
      [NoFields("object") EXCEPT !.secret = "ok", !.round = BadInt] }

\* well-formed bodies whose evaluation_url is null or the empty string
NoCallback ==
    [body : {"object"}, secret : {"ok"},
     email : {Absent}, task : {Str(<<"Q", " ", "a">>)},
     round : {Absent}, nonce : {Absent}, evaluation_url : {Null, Str(<<>>)}]

Requests ==
    Plain \cup Escaped \cup Full \cup Malformed \cup NoCallback
          \cup {NoFields("unparseable"), NoFields("nonobject")}

\* generated markup returned by the LLM
Artifacts == {"h1", "h2"}

None == "none"

\* every project identity a request of the model can produce
Names ==
    {RepoName(html_escape(t), r) :
        t \in Tasks \cup {<<"t", "a", "s", "k", "-">> \o h : h \in UuidHex},
        r \in {1, 2}}


\* a working tree: the three files of lines 99-106 (None / FALSE: not written)
NoTree == [index |-> None, readme |-> <<>>, license |-> FALSE]

\* line 103: the readme text is determined by task, email and round (one brief)
Readme(t, e, r) == <<t, e, IntToStr(r)>>

NoPayload ==
    [email |-> <<>>, task |-> <<>>, round |-> 0, nonce |-> Absent,
     repo_url |-> <<>>, commit_sha |-> NoTree, pages_url |-> <<>>]

NoResp == [status |-> 0, error |-> None, payload |-> NoPayload]

\* lines 150: the delays of the notification loop
Delays == <<1, 2, 4, 8, 16>>

(* ---------------- state ---------------- *)

VARIABLES
    pc,               \* position of the handler: the next step it takes
    served,           \* requests whose handler has run or is running
    waiting,          \* requests accepted whose handler has not run yet
    data,             \* the request being handled
    email, task, round_, nonce, evaluation_url,   \* lines 78-83
    repo_name,        \* line 87
    generated_code,   \* line 94
    commit_sha,       \* line 131
    response_payload, \* line 136
    i,                \* index into Delays of the loop of line 150
    resp,             \* the HTTP response of the request
    log,              \* external calls of this request, in order: <<op, result>>
    waits,            \* time.sleep arguments of this request, in order
    posted,           \* bodies of the callback POSTs of this request, in order
    faulted,          \* an external call of this request failed for a reason
                      \* outside the state (disk, network, tool, LLM)
    dirs,             \* directories under WORK_DIR
    tree,             \* working tree of each directory
    staged,           \* git index of each directory
    head,             \* committed tree of each directory (NoTree: no commit)
    remote,           \* repositories of the GitHub account
    succeeded         \* <<task, round>> of the requests answered 200

locals ==
    <<data, email, task, round_, nonce, evaluation_url, repo_name,
      generated_code, commit_sha, response_payload, i>>
fields == <<email, task, round_, nonce, evaluation_url, repo_name>>
outcome == <<generated_code, commit_sha, response_payload, i>>
obs == <<resp, log, waits, posted, faulted>>
env == <<dirs, tree, staged, head, remote, succeeded>>
vars == <<pc, served, waiting, locals, obs, env>>

Called(op) == \E k \in 1..Len(log) : log[k][1] = op
CalledOk(op) == \E k \in 1..Len(log) : log[k] = <<op, "ok">>
Count(op) == Cardinality({k \in 1..Len(log) : log[k][1] = op})

Init ==
    /\ pc = "idle"
    /\ served = 0
    /\ waiting = 0
    /\ data = NoFields("unparseable")
    /\ email = <<>> /\ task = <<>> /\ round_ = 0
    /\ nonce = Absent /\ evaluation_url = Absent
    /\ repo_name = <<>>
    /\ generated_code = None
    /\ commit_sha = NoTree
    /\ response_payload = NoPayload
    /\ i = 1
    /\ resp = NoResp
    /\ log = <<>> /\ waits = <<>> /\ posted = <<>> /\ faulted = FALSE
    /\ dirs = {}
    /\ tree = [n \in Names |-> NoTree]
    /\ staged = [n \in Names |-> NoTree]
    /\ head = [n \in Names |-> NoTree]
    /\ remote = {}
    /\ succeeded = {}

(* ---------------- the handler, step by step ---------------- *)

\* a POST to /api-endpoint is accepted by the server, at any time; its
\* handler is a coroutine waiting for the event loop
Arrive ==
    /\ served + waiting < MaxRequests
    /\ waiting' = waiting + 1
    /\ UNCHANGED <<pc, served, locals, obs, env>>

\* lines 65-69: the event loop runs the handler of a waiting request. The
\* handler is a coroutine whose only await is the body read of line 69;
\* subprocess.run, open, requests.post, time.sleep and the LLM call block the
\* loop's thread, so no other handler runs until this one returns or raises.
Receive ==
    /\ pc \in {"idle", "done"}
    /\ waiting > 0
    /\ waiting' = waiting - 1
    /\ \E d \in Requests : data' = d
    /\ served' = served + 1
    /\ pc' = "json"
    /\ email' = <<>> /\ task' = <<>> /\ round_' = 0
    /\ nonce' = Absent /\ evaluation_url' = Absent
    /\ repo_name' = <<>>
    /\ generated_code' = None
    /\ commit_sha' = NoTree
    /\ response_payload' = NoPayload
    /\ i' = 1
    /\ resp' = NoResp
    /\ log' = <<>> /\ waits' = <<>> /\ posted' = <<>> /\ faulted' = FALSE
    /\ UNCHANGED env

\* return JSONResponse(..., status_code=...)
Return(status, err, body) ==
    /\ resp' = [status |-> status, error |-> err, payload |-> body]
    /\ pc' = "done"

\* an exception leaves the handler uncaught: the server answers 500
Raise == Return(500, "Internal Server Error", NoPayload)

\* ParseJson with the except clause of lines 70-71 left out of the early return
ParseJson_Lenient ==
    /\ pc = "json"
    /\ pc' = "secret" /\ resp' = resp
    /\ UNCHANGED <<served, waiting, locals, log, waits, posted, faulted, env>>

\* lines 68-71
ParseJson ==
    /\ pc = "json"
    /\ IF data.body = "unparseable"
         THEN Return(400, "Invalid JSON", NoPayload)
         ELSE pc' = "secret" /\ resp' = resp
    /\ UNCHANGED <<served, waiting, locals, log, waits, posted, faulted, env>>

\* CheckSecret without the comparison of line 74
CheckSecret_NoAuth ==
    /\ pc = "secret"
    /\ IF data.body # "object"
         THEN Raise
         ELSE pc' = "extract" /\ resp' = resp
    /\ UNCHANGED <<served, waiting, locals, log, waits, posted, faulted, env>>

\* lines 74-75; data.get of a body that is no object raises AttributeError
CheckSecret ==
    /\ pc = "secret"
    /\ IF data.body # "object"
         THEN Raise
         ELSE IF data.secret # "ok"
                THEN Return(403, "Invalid secret", NoPayload)
                ELSE pc' = "extract" /\ resp' = resp
    /\ UNCHANGED <<served, waiting, locals, log, waits, posted, faulted, env>>

\* ExtractFields with a round that falls back to 1 when int() fails
ExtractFields_DefaultRound ==
    /\ pc = "extract"
    /\ IF data.email.k = "nonstr" \/ data.task.k = "nonstr"
         THEN /\ Raise
              /\ UNCHANGED fields
         ELSE /\ email' = html_escape(IF data.email.k = "absent"
                                        THEN DefaultEmail ELSE data.email.v)
              /\ \E t \in (IF data.task.k = "absent"
                             THEN {<<"t", "a", "s", "k", "-">> \o h : h \in UuidHex}
                             ELSE {data.task.v}) :
                    /\ task' = html_escape(t)
                    /\ repo_name' =
                         RepoName(html_escape(t),
                                  IF data.round.k = "int" THEN data.round.v[1] ELSE 1)
              /\ round_' = (IF data.round.k = "int" THEN data.round.v[1] ELSE 1)
              /\ nonce' = data.nonce
              /\ evaluation_url' = data.evaluation_url
              /\ pc' = "makedirs"
              /\ resp' = resp
    /\ UNCHANGED <<served, waiting, data, outcome, log, waits, posted, faulted, env>>

\* lines 78-87: html.escape of a non-string and int() of a non-number raise
ExtractFields ==
    /\ pc = "extract"
    /\ IF data.email.k = "nonstr" \/ data.task.k = "nonstr" \/ data.round.k = "badint"
         THEN /\ Raise
              /\ UNCHANGED fields
         ELSE /\ email' = html_escape(IF data.email.k = "absent"
                                        THEN DefaultEmail ELSE data.email.v)
              /\ \E t \in (IF data.task.k = "absent"
                             THEN {<<"t", "a", "s", "k", "-">> \o h : h \in UuidHex}
                             ELSE {data.task.v}) :
                    /\ task' = html_escape(t)
                    /\ repo_name' =
                         RepoName(html_escape(t),
                                  IF data.round.k = "absent" THEN 1 ELSE data.round.v[1])
              /\ round_' = (IF data.round.k = "absent" THEN 1 ELSE data.round.v[1])
              /\ nonce' = data.nonce
              /\ evaluation_url' = data.evaluation_url
              /\ pc' = "makedirs"
              /\ resp' = resp
    /\ UNCHANGED <<served, waiting, data, outcome, log, waits, posted, faulted, env>>


\* the result of an external call, entered in the log; Fault is a failure
\* for a reason outside the state (disk, network, tool, LLM)
Call(op, r) ==
    /\ log' = Append(log, <<op, r>>)
    /\ faulted' = faulted

Fault(op) ==
    /\ log' = Append(log, <<op, "fail">>)
    /\ faulted' = TRUE

\* line 89: os.makedirs(repo_path, exist_ok=True)
MakeDirs ==
    /\ pc = "makedirs"
    /\ \/ /\ Call("makedirs", "ok")
          /\ dirs' = dirs \cup {repo_name}
          /\ pc' = "generate" /\ resp' = resp
       \/ /\ Fault("makedirs")
          /\ Raise
          /\ dirs' = dirs
    /\ UNCHANGED <<served, waiting, locals, waits, posted, tree, staged, head, remote, succeeded>>

\* Generate with a retry of the LLM call after a failure
Generate_Retry ==
    /\ pc = "generate"
    /\ \/ /\ Call("generate", "ok")
          /\ \E a \in Artifacts : generated_code' = a
          /\ pc' = "write_index"
       \/ /\ Fault("generate")
          /\ pc' = "generate"
          /\ generated_code' = generated_code
    /\ resp' = resp
    /\ UNCHANGED <<served, waiting, data, fields, commit_sha, response_payload, i,
                   waits, posted, env>>

\* lines 93-96: the LLM call, and the only except clause before the callback
Generate ==
    /\ pc = "generate"
    /\ \/ /\ Call("generate", "ok")
          /\ \E a \in Artifacts : generated_code' = a
          /\ pc' = "write_index" /\ resp' = resp
       \/ /\ Fault("generate")
          /\ Return(500, "LLM generation failed", NoPayload)
          /\ generated_code' = generated_code
    /\ UNCHANGED <<served, waiting, data, fields, commit_sha, response_payload, i, waits, posted, env>>

\* a step that writes one file of the project (lines 99-106)
WriteFile(at, op, next, t) ==
    /\ pc = at
    /\ \/ /\ Call(op, "ok")
          /\ tree' = [tree EXCEPT ![repo_name] = t]
          /\ pc' = next /\ resp' = resp
       \/ /\ Fault(op)
          /\ Raise
          /\ tree' = tree
    /\ UNCHANGED <<served, waiting, locals, waits, posted, dirs, staged, head, remote, succeeded>>

WriteIndex ==
    WriteFile("write_index", "write_index", "write_readme",
              [tree[repo_name] EXCEPT !.index = generated_code])

WriteReadme ==
    WriteFile("write_readme", "write_readme", "write_license",
              [tree[repo_name] EXCEPT !.readme = Readme(task, email, round_)])

WriteLicense ==
    WriteFile("write_license", "write_license", "git_init",
              [tree[repo_name] EXCEPT !.license = TRUE])

\* Run without check=True: a non-zero exit is ignored
Run_NoCheck(at, op, next) ==
    /\ pc = at
    /\ \/ /\ Call(op, "ok")
       \/ /\ Fault(op)
    /\ pc' = next /\ resp' = resp
    /\ UNCHANGED <<served, waiting, locals, waits, posted, env>>

\* subprocess.run(..., check=True) of a command whose effect no later step
\* of the handler reads: a non-zero exit raises CalledProcessError
Run(at, op, next) ==
    /\ pc = at
    /\ \/ /\ Call(op, "ok")
          /\ pc' = next /\ resp' = resp
       \/ /\ Fault(op)
          /\ Raise
    /\ UNCHANGED <<served, waiting, locals, waits, posted, env>>

GitInit == Run("git_init", "git_init", "git_branch")
GitBranch == Run("git_branch", "git_branch", "git_config_name")
GitConfigName == Run("git_config_name", "git_config_name", "git_config_email")
GitConfigEmail == Run("git_config_email", "git_config_email", "git_add")

\* line 113: git add .
GitAdd ==
    /\ pc = "git_add"
    /\ \/ /\ Call("git_add", "ok")
          /\ staged' = [staged EXCEPT ![repo_name] = tree[repo_name]]
          /\ pc' = "git_commit" /\ resp' = resp
       \/ /\ Fault("git_add")
          /\ Raise
          /\ staged' = staged
    /\ UNCHANGED <<served, waiting, locals, waits, posted, dirs, tree, head, remote, succeeded>>

\* line 114: git commit exits 1 when the index equals the last commit
NothingToCommit == staged[repo_name] = head[repo_name]

GitCommit ==
    /\ pc = "git_commit"
    /\ \/ /\ ~NothingToCommit
          /\ Call("git_commit", "ok")
          /\ head' = [head EXCEPT ![repo_name] = staged[repo_name]]
          /\ pc' = "gh_create" /\ resp' = resp
       \/ /\ NothingToCommit
          /\ Call("git_commit", "fail")
          /\ Raise
          /\ head' = head
       \/ /\ Fault("git_commit")
          /\ Raise
          /\ head' = head
    /\ UNCHANGED <<served, waiting, locals, waits, posted, dirs, tree, staged, remote, succeeded>>

\* a hosting account that lets a name be created twice
NameTaken_Never == FALSE

\* lines 118-121: gh repo create fails when the account has the name already
NameTaken == repo_name \in remote

GhRepoCreate ==
    /\ pc = "gh_create"
    /\ \/ /\ ~NameTaken
          /\ Call("gh_create", "ok")
          /\ remote' = remote \cup {repo_name}
          /\ pc' = "gh_pages" /\ resp' = resp
       \/ /\ NameTaken
          /\ Call("gh_create", "fail")
          /\ Raise
          /\ remote' = remote
       \/ /\ Fault("gh_create")
          /\ Raise
          /\ remote' = remote
    /\ UNCHANGED <<served, waiting, locals, waits, posted, dirs, tree, staged, head, succeeded>>

\* lines 124-128
GhPages == Run("gh_pages", "gh_pages", "rev_parse")

\* lines 131-144: git rev-parse HEAD, then the payload
Payload(sha) ==
    [email |-> email, task |-> task, round |-> round_, nonce |-> nonce,
     repo_url |-> RepoUrl(repo_name), commit_sha |-> sha,
     pages_url |-> PagesUrl(repo_name)]

GitRevParse ==
    /\ pc = "rev_parse"
    /\ \/ /\ head[repo_name] # NoTree
          /\ Call("rev_parse", "ok")
          /\ commit_sha' = head[repo_name]
          /\ response_payload' = Payload(head[repo_name])
          /\ pc' = "notify" /\ resp' = resp
       \/ /\ Fault("rev_parse")
          /\ Raise
          /\ UNCHANGED <<commit_sha, response_payload>>
    /\ UNCHANGED <<served, waiting, data, fields, generated_code, i, waits, posted, env>>

\* a test for the presence of the field instead of its truth value
Truthy_Present(f) == f.k # "absent"

\* line 147: if evaluation_url
Truthy(f) == f.k = "str" /\ f.v # <<>>

CheckUrl ==
    /\ pc = "notify"
    /\ pc' = IF Truthy(evaluation_url) THEN "post" ELSE "respond"
    /\ UNCHANGED <<served, waiting, locals, obs, env>>

\* the loop without the break of line 158
AfterPost_NoBreak(r) ==
    CASE r = "200" -> "sleep"
      [] r = "non200" -> "sleep"
      [] r = "raise" -> "respond"

\* what the loop of line 150 does after an attempt that returned r
AfterPost(r) ==
    CASE r = "200" -> "respond"       \* line 158: break
      [] r = "non200" -> "sleep"      \* line 159
      [] r = "raise" -> "respond"     \* line 160: the except is outside the loop

\* a body rebuilt for the callback that drops the nonce
PostBody_NoNonce == [response_payload EXCEPT !.nonce = Absent]

\* line 154: json=response_payload
PostBody == response_payload

\* Post without the try/except of lines 148 and 160
Post_Uncaught ==
    /\ pc = "post"
    /\ \E r \in {"200", "non200", "raise"} :
          /\ Call("post", r)
          /\ IF r = "raise" THEN Raise ELSE pc' = AfterPost(r) /\ resp' = resp
    /\ posted' = Append(posted, PostBody)
    /\ UNCHANGED <<served, waiting, locals, waits, env>>

\* lines 151-158 and 160-161: one requests.post
Post ==
    /\ pc = "post"
    /\ \E r \in {"200", "non200", "raise"} :
          /\ Call("post", r)
          /\ pc' = AfterPost(r)
    /\ posted' = Append(posted, PostBody)
    /\ UNCHANGED <<served, waiting, locals, resp, waits, env>>

\* a loop that gives up without an answer once the delays are used up
AfterSleep_GiveUp(k) == IF k < Len(Delays) THEN "post" ELSE "failed"

\* after the sleep the for loop takes the next delay, or ends
AfterSleep(k) == IF k < Len(Delays) THEN "post" ELSE "respond"

\* line 159: time.sleep(delay)
Sleep ==
    /\ pc = "sleep"
    /\ Call("sleep", "ok")
    /\ waits' = Append(waits, Delays[i])
    /\ i' = IF i < Len(Delays) THEN i + 1 ELSE i
    /\ pc' = AfterSleep(i)
    /\ UNCHANGED <<served, waiting, data, fields, generated_code, commit_sha,
                   response_payload, resp, posted, env>>

\* line 163
Respond ==
    /\ pc = "respond"
    /\ Return(200, None, response_payload)
    /\ succeeded' = succeeded \cup {<<data.task, data.round>>}
    /\ UNCHANGED <<served, waiting, locals, log, waits, posted, faulted, dirs, tree, staged,
                   head, remote>>

Next ==
    \/ Arrive
    \/ Receive
    \/ ParseJson
    \/ CheckSecret
    \/ ExtractFields
    \/ MakeDirs
    \/ Generate
    \/ WriteIndex
    \/ WriteReadme
    \/ WriteLicense
    \/ GitInit
    \/ GitBranch
    \/ GitConfigName
    \/ GitConfigEmail
    \/ GitAdd
    \/ GitCommit
    \/ GhRepoCreate
    \/ GhPages
    \/ GitRevParse
    \/ CheckUrl
    \/ Post
    \/ Sleep
    \/ Respond

Spec == Init /\ [][Next]_vars

\* the notification step keeps running: every requests.post ends (answer,
\* failure or the timeout of line 155), every time.sleep ends, and the
\* thread then takes the next statement
Notify == CheckUrl \/ Post \/ Sleep \/ Respond

LiveSpec == Spec /\ WF_vars(Notify)

TypeOK ==
    /\ served \in 0..MaxRequests
    /\ waiting \in 0..MaxRequests
    /\ data \in Requests
    /\ repo_name \in Names \cup {<<>>}
    /\ generated_code \in Artifacts \cup {None}
    /\ i \in 1..Len(Delays)
    /\ resp.status \in {0, 200, 400, 403, 500}
    /\ dirs \subseteq Names
    /\ remote \subseteq Names


(* ---------------- properties ---------------- *)

Last(q) == q[Len(q)]
Ops(q) == [k \in 1..Len(q) |-> q[k][1]]
IsPrefix(p, q) == Len(p) <= Len(q) /\ SubSeq(q, 1, Len(p)) = p

\* the request in hand was read, parsed as JSON and is a JSON object
Handling == pc # "idle"
Done == pc = "done"

\* round of the request as line 80 reads it
RoundOf(d) == IF d.round.k = "absent" THEN 1 ELSE d.round.v[1]

PublishSteps ==
    <<"git_init", "git_branch", "git_config_name", "git_config_email",
      "git_add", "git_commit", "gh_create", "gh_pages", "rev_parse">>
PublishOps == {PublishSteps[k] : k \in 1..Len(PublishSteps)}
IsPublish(e) == e[1] \in PublishOps
IsPost(e) == e[1] = "post"
IsNotify(e) == e[1] \in {"post", "sleep"}
Posts == SelectSeq(log, IsPost)

\* C1: a request whose body is a JSON object with a missing or wrong secret is
\* answered 403, and no external call (directory, generator, file, git, gh,
\* callback) is ever made for it.
ThmC1 ==
    (Handling /\ data.body = "object" /\ data.secret # "ok") =>
        /\ log = <<>>
        /\ pc \in {"json", "secret", "done"}
        /\ Done => resp.status = 403 /\ resp.error = "Invalid secret"

WitC1 ==
    /\ Done /\ data.body = "object" /\ data.secret = "wrong"
    /\ resp.status = 403 /\ log = <<>>
    /\ remote # {}

\* C2: when the generator fails the response is 500 and the request makes no
\* Materializer call (directory creation, file write), no Publisher call and
\* no callback POST, neither before nor after the generator call.
CexC2 ==
    (Done /\ <<"generate", "fail">> \in {log[k] : k \in 1..Len(log)}) =>
        /\ resp.status = 500
        /\ \A k \in 1..Len(log) : log[k][1] = "generate"

\* C3: against a callback that never answers 200 (non-200 answers or
\* transport failures) the notification makes exactly 5 attempts.
CexC3 ==
    (Done /\ resp.status = 200 /\ Truthy(evaluation_url)
          /\ \A k \in 1..Len(Posts) : Posts[k][2] # "200") =>
        Len(Posts) = 5

\* C4: when all 5 attempts return non-200 the waits are 1, 2, 4, 8 and the
\* loop ends right after the 5th attempt, without a further wait.
CexC4 ==
    (Done /\ Len(Posts) = 5 /\ \A k \in 1..5 : Posts[k][2] = "non200") =>
        /\ waits = <<1, 2, 4, 8>>
        /\ Last(log)[1] = "post"

\* C5: when the k-th attempt (k in 1..5) is the first to return 200, after
\* k-1 non-200 answers, the notification has made exactly k attempts with the
\* waits 1, 2, ..., 2^(k-2) between consecutive attempts, and nothing (no
\* attempt, no wait) follows the 200.
ThmC5 ==
    \A p \in 1..Len(log) :
        log[p] = <<"post", "200">> =>
            LET k == Len(Posts)
                notif == SelectSeq(log, IsNotify)
            IN  /\ p = Len(log)
                /\ k \in 1..5
                /\ \A j \in 1..(k - 1) : Posts[j][2] = "non200"
                /\ waits = [j \in 1..(k - 1) |-> 2 ^ (j - 1)]
                /\ Len(notif) = 2 * k - 1
                /\ \A j \in 1..Len(notif) :
                      notif[j][1] = IF j % 2 = 1 THEN "post" ELSE "sleep"

WitC5 ==
    /\ Done /\ resp.status = 200
    /\ Len(Posts) = 5 /\ Posts[5][2] = "200"
    /\ waits = <<1, 2, 4, 8>>

\* C6: once publishing has succeeded, whatever the callback does, the handler
\* stays in the notification step or answers, and its answer is 200 with the
\* payload built before the first attempt.
ThmC6 ==
    CalledOk("rev_parse") =>
        /\ pc \in {"notify", "post", "sleep", "respond", "done"}
        /\ response_payload = Payload(head[repo_name])
        /\ Done => resp = [status |-> 200, error |-> None,
                           payload |-> Payload(head[repo_name])]

WitC6 ==
    /\ Done /\ resp.status = 200
    /\ Len(Posts) = 2 /\ Posts[1][2] = "non200" /\ Posts[2][2] = "raise"

\* C7: the publish commands run in the order of PublishSteps, each only
\* after all earlier ones succeeded; a failed command is the last call of the
\* request, which then ends 500 without callback POST and without rollback.
ThmC7 ==
    LET P == SelectSeq(log, IsPublish)
    IN  /\ IsPrefix(Ops(P), PublishSteps)
        /\ \A k \in 1..Len(P) :
              \/ P[k][2] = "ok"
              \/ /\ k = Len(P)
                 /\ Last(log) = P[k]
                 /\ Done /\ resp.status = 500
                 /\ Posts = <<>>
        /\ Posts # <<>> => Len(P) = Len(PublishSteps)
        /\ (Done /\ resp.status = 200) => Len(P) = Len(PublishSteps)

WitC7 ==
    /\ Done /\ resp.status = 500
    /\ log # <<>>
    /\ Last(log) = <<"gh_pages", "fail">>
    /\ repo_name \in remote
    /\ Truthy(evaluation_url)

\* C8: a request whose body does not parse is answered 400 and no external
\* call is made for it.
ThmC8 ==
    (Handling /\ data.body = "unparseable") =>
        /\ log = <<>>
        /\ pc \in {"json", "done"}
        /\ Done => resp.status = 400

WitC8 ==
    /\ Done /\ data.body = "unparseable" /\ resp.status = 400
    /\ remote # {}

\* the request in hand repeats the task and round of a request answered 200
IsRepeat ==
    /\ Handling
    /\ data.body = "object" /\ data.secret = "ok"
    /\ data.task.k = "str"
    /\ <<data.task, data.round>> \in succeeded
    /\ Done => resp.status # 200

\* C9 as stated: a repeated request never succeeds, and without external
\* faults it fails exactly at the remote-repository-creation step.
CexC9 ==
    IsRepeat =>
        /\ pc # "respond"
        /\ (Done /\ ~faulted) =>
              /\ log # <<>>
              /\ Last(log) = <<"gh_create", "fail">>
              /\ \A k \in 1..(Len(log) - 1) : log[k][2] = "ok"

\* C9 amended: a repeated request never succeeds; without external faults it
\* fails at the commit step when the files it wrote equal the last commit, and
\* at the remote-repository-creation step otherwise, every earlier step
\* having succeeded.
C9State ==
    IsRepeat =>
        /\ pc # "respond"
        /\ (Done /\ ~faulted) =>
              /\ log # <<>>
              /\ Last(log) \in {<<"git_commit", "fail">>, <<"gh_create", "fail">>}
              /\ \A k \in 1..(Len(log) - 1) : log[k][2] = "ok"
              /\ resp.status = 500

C9Step ==
    (IsRepeat /\ pc = "git_commit" /\ pc' # pc /\ ~faulted') =>
        IF staged[repo_name] = head[repo_name]
          THEN pc' = "done" /\ Last(log') = <<"git_commit", "fail">>
          ELSE pc' = "gh_create"

ThmC9 == [](C9State) /\ [][C9Step]_vars

WitC9 ==
    /\ IsRepeat /\ Done /\ ~faulted
    /\ log # <<>>
    /\ Last(log) = <<"gh_create", "fail">>

\* C10: the project identity of an authenticated request is
\* lower(replace(task + "-" + round, " ", "-")) of the request's own task and
\* round, for every task string.
CexC10 ==
    (Called("makedirs") /\ data.task.k = "str") =>
        repo_name = RepoName(data.task.v, RoundOf(data))


\* the request supplies no callback URL: field absent, null or empty
NoCallbackUrl(d) == d.evaluation_url \in {Absent, Null, Str(<<>>)}

\* C11: when the request supplies no callback URL (absent, null or empty) a
\* published request makes no callback POST and no wait, and goes from the
\* publish step straight to the 200 response.
ThmC11 ==
    (CalledOk("rev_parse") /\ NoCallbackUrl(data)) =>
        /\ Posts = <<>> /\ waits = <<>>
        /\ ~Called("sleep")
        /\ pc \in {"notify", "respond", "done"}
        /\ Done => resp.status = 200

WitC11 ==
    /\ Done /\ resp.status = 200
    /\ data.evaluation_url = Null
    /\ log # <<>>
    /\ Last(log) = <<"rev_parse", "ok">>


\* email of the request, or the placeholder of line 78
EmailOf(d) == IF d.email.k = "absent" THEN DefaultEmail ELSE d.email.v

\* C12: the body of a 200 response carries the request's email, task and
\* round (placeholder address and round 1 when absent), the request's nonce
\* unmodified, and the repository URL, commit hash and pages URL of the
\* publish step.
CexC12 ==
    (Done /\ resp.status = 200 /\ data.task.k = "str") =>
        /\ resp.payload.email = EmailOf(data)
        /\ resp.payload.task = data.task.v
        /\ resp.payload.round = RoundOf(data)
        /\ resp.payload.nonce = data.nonce
        /\ resp.payload.repo_url = RepoUrl(repo_name)
        /\ resp.payload.commit_sha = head[repo_name]
        /\ resp.payload.pages_url = PagesUrl(repo_name)

\* C13: every callback POST of a request, on every attempt, carries the same
\* body, and that body is the body of the request's 200 response.
ThmC13 ==
    /\ Len(posted) = Len(Posts)
    /\ \A k \in 1..Len(posted) :
          /\ posted[k] = posted[1]
          /\ posted[k] = Payload(head[repo_name])
          /\ (Done /\ resp.status = 200) => resp.payload = posted[k]
    /\ (Done /\ posted # <<>>) => resp.status = 200

WitC13 ==
    /\ Done /\ resp.status = 200
    /\ Len(posted) = 5
    /\ resp.payload.nonce = Str(<<"n">>)

AllOps ==
    {"makedirs", "generate", "write_index", "write_readme", "write_license"}
        \cup PublishOps

\* C14: within one request the generator call, each file write, each git and
\* gh command run at most once and the callback POST at most 5 times; a
\* failed call other than the POST is the last call of the request.
ThmC14 ==
    /\ \A op \in AllOps : Count(op) <= 1
    /\ Count("post") <= 5
    /\ \A k \in 1..Len(log) :
          (log[k][1] \in AllOps /\ log[k][2] = "fail") => k = Len(log)

WitC14 ==
    /\ Done /\ Count("post") = 5
    /\ \A op \in AllOps : Count(op) = 1


\* the handler is inside a step that blocks: LLM call, file write,
\* subprocess, callback POST or backoff wait
Blocking ==
    pc \in {"generate", "write_index", "write_readme", "write_license",
            "post", "sleep"} \cup PublishOps

\* C15: while one request is inside a blocking step, the handler of another
\* request received by the same process can take its steps.
CexC15 == (Blocking /\ waiting > 0) => ENABLED Receive

\* this request has written index.html and not yet committed it
Uncommitted ==
    /\ CalledOk("write_index")
    /\ ~Called("git_commit")
    /\ pc # "done"

\* C16: requests are not excluded from a working directory in use: while a
\* request is between its write of index.html and its commit, another
\* request can run its steps (and overwrite the file the commit will take).
CexC16 == (Uncommitted /\ waiting > 0) => ENABLED Receive

\* what the code does instead: a commit holds the files its own request wrote
CommitIsOwn ==
    (CalledOk("git_commit") /\ pc # "done") =>
        /\ head[repo_name].index = generated_code
        /\ head[repo_name].readme = Readme(task, email, round_)

\* the request fails before its fields are extracted
EarlyFailure(d) ==
    \/ d.body \in {"unparseable", "nonobject"}
    \/ d.secret # "ok"
    \/ d.email.k = "nonstr"
    \/ d.task.k = "nonstr"
    \/ d.round.k = "badint"

C17State ==
    (Handling /\ EarlyFailure(data)) =>
        /\ log = <<>> /\ posted = <<>> /\ waits = <<>>
        /\ pc \in {"json", "secret", "extract", "done"}
        /\ Done => resp.status \in {400, 403, 500}

C17Step ==
    EarlyFailure(data') => UNCHANGED <<dirs, tree, staged, head, remote>>

\* C17: a request that fails before its fields are extracted (unparseable
\* body, body that is no object, secret mismatch, round that is no integer,
\* email or task that is no string) makes no external call and leaves
\* directories, working trees, commits and remote repositories as they were.
ThmC17 == [](C17State) /\ [][C17Step]_vars

WitC17 ==
    /\ Done /\ data.round = BadInt
    /\ resp.status = 500 /\ log = <<>>
    /\ remote # {}

\* C18: a published request is always answered 200 in the end, after at most
\* 5 callback attempts and at most 5 waits, whatever the callback answers.
ThmC18 ==
    /\ [](Count("post") <= 5 /\ Len(waits) <= 5)
    /\ (CalledOk("rev_parse") ~> (Done /\ resp.status = 200))

WitC18 ==
    /\ Done /\ resp.status = 200
    /\ Count("post") = 5 /\ Len(waits) = 5

====
